---- MODULE Spec2Model ----
(***************************************************************************)
(* The dependency-resolution container of src/src/Tree.ts (class Tree):    *)
(* the registry, the resolved cache, and register (with constant and       *)
(* singleton, which call it) / resolve / destroy.                          *)
(*                                                                         *)
(* Every public call is one action; the recursion of _resolve and _destroy *)
(* is computed by RECURSIVE operators that thread the resolved cache and a *)
(* log of what the call did.  `last` holds the call the caller has just     *)
(* made: its arguments, how it ended, what it returned and its log.        *)
(*                                                                         *)
(* Keys are ordinary identifiers: non-empty strings that do not collide    *)
(* with a member of Object.prototype.  Factories are constructors: every   *)
(* invocation yields a new object.                                         *)
(*                                                                         *)
(* The plugin pipeline of src/src/plugins/EventPluginManager.ts (run) is   *)
(* modelled beside it, with its own state and its own specification        *)
(* PMSpec: the container does not move in PMSpec, nor the pipeline in Spec. *)
(***************************************************************************)
EXTENDS Integers, Sequences, FiniteSets, TLC

VARIABLES
    _registry,      \* Tree._registry: key -> registration record
    registryKeys,   \* Object.keys(this._registry): the keys in insertion order
    _resolved,      \* Tree._resolved: key -> [context, value]
    nextId,         \* identity of the next object a factory invocation creates
    last,           \* the call just made and its outcome, Idle between calls
    plugins,        \* context.client.config.plugins: the configured plugin list
    runCount,       \* number of EventPluginManager.run calls made
    ran             \* the run call just made and what it did

vars == <<_registry, registryKeys, _resolved, nextId, last,
          plugins, runCount, ran>>

\* the state of the container, and the state of the plugin pipeline
treeVars == <<_registry, registryKeys, _resolved, nextId, last>>
pmVars == <<plugins, runCount, ran>>

(***************************************************************************)
(* Bounds and input domains                                                *)
(***************************************************************************)
Keys == {"a", "b", "c"}

\* number of objects the factories may construct in one behaviour
MaxInst == 3

\* the `undefined` of an omitted argument
Undefined == "<undefined>"

\* How a call ends: normally, or with the error it throws.
Ok == "ok"
InvalidRegistrationOptions == "InvalidRegistrationOptions"   \* Tree.ts:163
NotAFactory == "NotAFactory"                                 \* Tree.ts:184
UnregisteredDependency == "UnregisteredDependency"           \* Tree.ts:342
CircularDependency == "CircularDependency"                   \* Tree.ts:347
TypeError == "TypeError"      \* calling something that is not a function
RangeError == "RangeError"    \* maximum call stack size exceeded

\* The parameter lists a registered function may declare, as the segments
\* that splitting its argument declaration on "," yields: a function without
\* parameters yields the one empty segment.
ArgDecls == {<<"">>, <<"a">>, <<"b">>, <<"c", "b">>}

\* The values handed to register: functions (with their declared parameters,
\* and whether their prototype is an event emitter, i.e. has emit and
\* removeAllListeners), and one plain value that is not callable.
Functions ==
    {[callable |-> TRUE, argDecl |-> d, emitter |-> e] :
        d \in ArgDecls, e \in BOOLEAN}
PlainValue == [callable |-> FALSE, argDecl |-> <<"">>, emitter |-> FALSE]
Values == Functions \cup {PlainValue}

\* The options handed to register: plain objects with the flags (plain), one
\* that names an aggregator, and one that is no plain object (a string).
FlagOptions ==
    [plain : {TRUE}, constant : BOOLEAN, singleton : BOOLEAN,
     aggregateOn : {Undefined}]
AggregateOptions ==
    [plain |-> TRUE, constant |-> FALSE, singleton |-> FALSE,
     aggregateOn |-> "c"]
NotPlainOptions ==
    [plain |-> FALSE, constant |-> FALSE, singleton |-> FALSE,
     aggregateOn |-> Undefined]
Options == FlagOptions \cup {AggregateOptions, NotPlainOptions}

\* The register calls made: constants are plain values; the emitter
\* prototype, which is only ever read from a cached context, is varied for
\* singleton factories; the options that are no plain object and the ones
\* that aggregate come with one function each.
Registrations ==
    {r \in [value : Values, opts : Options] :
        /\ r.opts.constant => r.value = PlainValue
        /\ r.value.emitter => r.opts.singleton /\ ~r.opts.constant
        /\ r.opts \notin FlagOptions =>
              r.value = [callable |-> TRUE, argDecl |-> <<"">>, emitter |-> FALSE]}

\* The options handed to constant and singleton: none (the flags all unset),
\* or the one that is no plain object.
WrapperOptions ==
    {o \in Options : ~o.constant /\ ~o.singleton /\ o.aggregateOn = Undefined}

\* The values handed to singleton: a function without parameters, with an
\* emitter prototype or without, and the plain value.
SingletonValues ==
    {v \in Values : v.argDecl = <<"">>}

\* Keys are first registered in this order (behaviours that register them in
\* another order are these with the keys renamed).
KeyOrder == <<"a", "b", "c">>

(***************************************************************************)
(* Helpers of Tree.ts                                                      *)
(***************************************************************************)
\* countBy counting one occurrence too few.
countByLessOne(collection, key) ==
    Cardinality({i \in 1..Len(collection) : collection[i] = key}) - 1

\* countBy(collection)[key]
countBy(collection, key) ==
    Cardinality({i \in 1..Len(collection) : collection[i] = key})

contains(collection, target) ==
    \E i \in 1..Len(collection) : collection[i] = target

\* obj[key] = value on a JS object: a new key is added, an old one overwritten
Put(obj, key, value) ==
    [k \in DOMAIN obj \cup {key} |-> IF k = key THEN value ELSE obj[k]]

\* delete obj[key]
Delete(obj, key) == [k \in DOMAIN obj \ {key} |-> obj[k]]

EmptyObject == [k \in {} |-> 0]

isRegistered(registry, key) == key \in DOMAIN registry

\* dependencies.map(d => d.trim()).filter(d => !!d)
RECURSIVE FilterNonEmpty(_)
FilterNonEmpty(s) ==
    IF s = <<>> THEN <<>>
    ELSE IF Head(s) = "" THEN FilterNonEmpty(Tail(s))
    ELSE <<Head(s)>> \o FilterNonEmpty(Tail(s))

_findDependencies(fn) == FilterNonEmpty(fn.argDecl)

(***************************************************************************)
(* The log of a call                                                       *)
(***************************************************************************)
Event(e, key, path, args, value) ==
    [e |-> e, key |-> key, path |-> path, args |-> args, value |-> value]

Enter(key, p) == Event("enter", key, p, <<>>, 0)      \* _resolve(key, path) entered
Invoke(key, args, v) == Event("invoke", key, <<>>, args, v) \* factory applied
Store(key, v) == Event("store", key, <<>>, <<>>, v)   \* this._resolved[key] = ...
Skip(key) == Event("skip", key, <<>>, <<>>, 0)        \* _destroy: not in cache
Emit(key) == Event("emit", key, <<>>, <<>>, 0)        \* context.emit('destroy')
Remove(key) == Event("remove", key, <<>>, <<>>, 0)    \* delete this._resolved[key]

(***************************************************************************)
(* _resolve                                                                *)
(***************************************************************************)
\* The running state of a call: the resolved cache, the next object
\* identity, the log, how the call stands (out), the value returned (val),
\* the path an error reports, the resolvedDeps of the current frame, and the
\* mapping that resolve() without a key returns (all).
Frame(resolved, id) ==
    [resolved |-> resolved, nextId |-> id, log |-> <<>>, out |-> Ok,
     val |-> 0, path |-> <<>>, args |-> <<>>, all |-> EmptyObject]

\* Throw with the message built from the offending key alone, not the path.
ThrowKeyOnly(st, error, p) ==
    [st EXCEPT !.out = error, !.val = 0,
               !.path = IF p = <<>> THEN p ELSE <<p[Len(p)]>>]

\* throw new Error(...): the call ends with the error, which reports the path
\* p, and returns no value
Throw(st, error, p) == [st EXCEPT !.out = error, !.path = p, !.val = 0]

\* Finish with the singleton test dropped: nothing is ever cached.
FinishNeverCaches(st, key, config, context, v) == [st EXCEPT !.val = v]

\* Finish with the singleton test dropped the other way: everything is cached.
FinishAlwaysCaches(st, key, config, context, v) ==
    [st EXCEPT !.val = v,
               !.resolved = Put(@, key, [context |-> context, value |-> v]),
               !.log = Append(@, Store(key, v))]

\* Lines 389-402: a non-singleton's value is returned as it is, a
\* singleton's is stored in the resolved cache first.
Finish(st, key, config, context, v) ==
    IF ~config.isSingleton
    THEN [st EXCEPT !.val = v]
    ELSE [st EXCEPT !.val = v,
                    !.resolved = Put(@, key, [context |-> context, value |-> v]),
                    !.log = Append(@, Store(key, v))]

RECURSIVE _resolve(_, _, _, _)
RECURSIVE ResolveDependencies(_, _, _, _, _, _)

\* ResolveDependencies with unshift for push: each value is put in front.
ResolveDependenciesUnshift(registry, dependencies, i, p, st, resolvedDeps) ==
    IF i > Len(dependencies) THEN [st EXCEPT !.args = resolvedDeps]
    ELSE LET r == _resolve(registry, dependencies[i], p, st)
         IN  IF r.out # Ok THEN r
             ELSE ResolveDependencies(registry, dependencies, i + 1, p, r,
                                      <<r.val>> \o resolvedDeps)

\* dependencies.forEach(dependency => resolvedDeps.push(this._resolve(dependency, p)))
ResolveDependencies(registry, dependencies, i, p, st, resolvedDeps) ==
    IF i > Len(dependencies) THEN [st EXCEPT !.args = resolvedDeps]
    ELSE LET r == _resolve(registry, dependencies[i], p, st)
         IN  IF r.out # Ok THEN r
             ELSE ResolveDependencies(registry, dependencies, i + 1, p, r,
                                      Append(resolvedDeps, r.val))

\* _resolve with the cache entry of a singleton written before its
\* dependencies are resolved, and completed after the factory returned.
_resolveStoresFirst(registry, key, path, st) ==
    LET p  == Append(path, key)
        s0 == [st EXCEPT !.log = Append(@, Enter(key, p))]
    IN
    IF ~isRegistered(registry, key) THEN Throw(s0, UnregisteredDependency, p)
    ELSE IF countBy(p, key) > 1 THEN Throw(s0, CircularDependency, p)
    ELSE
      LET config == registry[key] IN
      IF key \in DOMAIN s0.resolved
      THEN [s0 EXCEPT !.val = s0.resolved[key].value]
      ELSE IF config.isConstant
      THEN Finish(s0, key, config, [emitter |-> FALSE], 0)
      ELSE
        LET context == [emitter |-> config.value.emitter]
            early == Finish(s0, key, config, context, 0)
            r == ResolveDependencies(registry, config.dependencies, 1, p,
                                     early, <<>>)
        IN  IF r.out # Ok THEN r
            ELSE LET v == r.nextId
                     s1 == [r EXCEPT !.nextId = v + 1,
                                     !.log = Append(@, Invoke(key, r.args, v))]
                 IN  Finish(s1, key, config, context, v)

_resolve(registry, key, path, st) ==
    LET p  == Append(path, key)
        s0 == [st EXCEPT !.log = Append(@, Enter(key, p))]
    IN
    IF ~isRegistered(registry, key) THEN Throw(s0, UnregisteredDependency, p)
    ELSE IF countBy(p, key) > 1 THEN Throw(s0, CircularDependency, p)
    ELSE
      LET config == registry[key] IN
      IF key \in DOMAIN s0.resolved
      THEN [s0 EXCEPT !.val = s0.resolved[key].value]
      ELSE IF config.isConstant
      THEN Finish(s0, key, config, [emitter |-> FALSE], 0)
      ELSE
        LET r == ResolveDependencies(registry, config.dependencies, 1, p, s0, <<>>)
        IN  IF r.out # Ok THEN r
            ELSE LET v == r.nextId
                     s1 == [r EXCEPT !.nextId = v + 1,
                                     !.log = Append(@, Invoke(key, r.args, v))]
                 IN  Finish(s1, key, config,
                            [emitter |-> config.value.emitter], v)

\* Tree.resolve(key): one key, or every registered key in turn
RECURSIVE ResolveAll(_, _, _, _, _)

\* ResolveAll made transactional: a failure restores the resolved cache.
ResolveAllRollsBack(registry, keys, i, st, o) ==
    IF i > Len(keys) THEN [st EXCEPT !.all = o, !.val = 0]
    ELSE LET r == _resolve(registry, keys[i], <<>>, st)
         IN  IF r.out # Ok THEN [r EXCEPT !.resolved = st.resolved]
             ELSE LET rest == ResolveAll(registry, keys, i + 1, r,
                                         Put(o, keys[i], r.val))
                  IN  IF rest.out # Ok
                      THEN [rest EXCEPT !.resolved = st.resolved]
                      ELSE rest

\* lines 262-267: o[k] = this._resolve(k) for every key of the registry, in
\* its order; the mapping o is returned when every key has been resolved
ResolveAll(registry, keys, i, st, o) ==
    IF i > Len(keys) THEN [st EXCEPT !.all = o, !.val = 0]
    ELSE LET r == _resolve(registry, keys[i], <<>>, st)
         IN  IF r.out # Ok THEN r
             ELSE ResolveAll(registry, keys, i + 1, r, Put(o, keys[i], r.val))

resolve(registry, keys, resolved, id, key) ==
    IF key = Undefined
    THEN ResolveAll(registry, keys, 1, Frame(resolved, id), EmptyObject)
    ELSE _resolve(registry, key, <<>>, Frame(resolved, id))

(***************************************************************************)
(* _destroy                                                                *)
(***************************************************************************)
\* Object.keys(registry).map(...).filter(...): the registered keys whose
\* dependencies contain key, in the registry's order
RECURSIVE dependsOnKey(_, _, _)
dependsOnKey(registry, keys, key) ==
    IF keys = <<>> THEN <<>>
    ELSE (IF contains(registry[Head(keys)].dependencies, key)
          THEN <<Head(keys)>> ELSE <<>>)
         \o dependsOnKey(registry, Tail(keys), key)

RECURSIVE _destroy(_, _, _, _, _)
RECURSIVE DestroyEach(_, _, _, _, _, _)

\* dependsOnKey.forEach(depName => this._destroy(depName))
DestroyEach(registry, keys, names, i, st, active) ==
    IF i > Len(names) THEN st
    ELSE LET r == _destroy(registry, keys, names[i], st, active)
         IN  IF r.out # Ok THEN r
             ELSE DestroyEach(registry, keys, names, i + 1, r, active)

\* _destroy with the order turned round: the hook and the removal of key
\* first, its dependents after.
_destroyKeyFirst(registry, keys, key, st, active) ==
    IF key \notin DOMAIN st.resolved
    THEN [st EXCEPT !.log = Append(@, Skip(key))]
    ELSE IF ~st.resolved[key].context.emitter
    THEN Throw(st, TypeError, <<>>)
    ELSE DestroyEach(registry, keys, dependsOnKey(registry, keys, key), 1,
                     [st EXCEPT !.log = Append(Append(@, Emit(key)), Remove(key)),
                                !.resolved = Delete(@, key)],
                     active)

\* `active` holds the keys whose _destroy frames are on the call stack.  A
\* key that is entered again while it is on the stack is still cached (its
\* entry is deleted only after its dependents), so the recursion repeats
\* without end and the call stack overflows.
_destroy(registry, keys, key, st, active) ==
    IF key \notin DOMAIN st.resolved
    THEN [st EXCEPT !.log = Append(@, Skip(key))]
    ELSE IF key \in active THEN Throw(st, RangeError, <<>>)
    ELSE
      LET r == DestroyEach(registry, keys, dependsOnKey(registry, keys, key),
                           1, st, active \cup {key})
      IN  IF r.out # Ok THEN r
          ELSE IF ~r.resolved[key].context.emitter
          THEN Throw(r, TypeError, <<>>)
          ELSE [r EXCEPT !.log = Append(Append(@, Emit(key)), Remove(key)),
                         !.resolved = Delete(@, key)]

\* destroy with the test of key lost: every registered key is destroyed.
destroyEveryKey(registry, keys, resolved, id, key) ==
    DestroyEach(registry, keys, keys, 1, Frame(resolved, id), {})

\* destroy with the loop over the registered keys ended after the first key.
destroyFirstKey(registry, keys, resolved, id, key) ==
    IF key # Undefined
    THEN _destroy(registry, keys, key, Frame(resolved, id), {})
    ELSE DestroyEach(registry, keys,
                     IF keys = <<>> THEN <<>> ELSE <<Head(keys)>>,
                     1, Frame(resolved, id), {})

\* Tree.destroy(key): one key, or every registered key in turn
destroy(registry, keys, resolved, id, key) ==
    IF key # Undefined
    THEN _destroy(registry, keys, key, Frame(resolved, id), {})
    ELSE DestroyEach(registry, keys, keys, 1, Frame(resolved, id), {})

(***************************************************************************)
(* register                                                                *)
(***************************************************************************)
\* register with a single key (the form with an object of key/value pairs,
\* lines 145-158, is a loop of these calls).  The state it leaves behind:
\* the frame of its destroy call (cache, log, outcome) and the registry.
Registered(st, registry, keys) ==
    [st |-> st, registry |-> registry, keys |-> keys]

\* register with the call of destroy at lines 172-178 lost.
registerKeepsCache(registry, keys, resolved, id, key, value, opts) ==
    IF ~opts.plain
    THEN Registered(Throw(Frame(resolved, id), InvalidRegistrationOptions, <<>>),
                    registry, keys)
    ELSE IF ~opts.constant /\ ~value.callable
    THEN Registered(Throw(Frame(resolved, id), NotAFactory, <<>>), registry, keys)
    ELSE Registered(Frame(resolved, id),
                    Put(registry, key,
                        [dependencies |-> IF opts.constant THEN <<>>
                                          ELSE _findDependencies(value),
                         isConstant   |-> opts.constant,
                         isSingleton  |-> opts.singleton,
                         value        |-> value]),
                    IF isRegistered(registry, key) THEN keys
                    ELSE Append(keys, key))

register(registry, keys, resolved, id, key, value, opts) ==
    IF ~opts.plain
    THEN Registered(Throw(Frame(resolved, id), InvalidRegistrationOptions, <<>>),
                    registry, keys)
    ELSE
      LET d == IF isRegistered(registry, key)
               THEN destroy(registry, keys, resolved, id, key)
               ELSE Frame(resolved, id)
      IN
      IF d.out # Ok THEN Registered(d, registry, keys)
      ELSE IF ~opts.constant /\ ~value.callable
      THEN Registered(Throw(d, NotAFactory, <<>>), registry, keys)
      ELSE
        LET dependencies == IF opts.constant THEN <<>>
                            ELSE _findDependencies(value)
            record == [dependencies |-> dependencies,
                       isConstant   |-> opts.constant,
                       isSingleton  |-> opts.singleton,
                       value        |-> value]
            registry2 == Put(registry, key, record)
            keys2 == IF isRegistered(registry, key) THEN keys
                     ELSE Append(keys, key)
        IN
        \* line 204: aggregateOn.forEach(aggregateOn, ...) passes the array
        \* where forEach takes its callback, so forEach throws
        IF opts.aggregateOn # Undefined
        THEN Registered(Throw(d, TypeError, <<>>), registry2, keys2)
        ELSE Registered(d, registry2, keys2)

\* clone(value), lines 44-54: a new plain object with the own properties of
\* what it is given (none when the options are omitted)
clone(opts) == [opts EXCEPT !.plain = TRUE]

\* Tree.constant and Tree.singleton, lines 97-109: register with the flag
\* set on a clone of the options
constant(registry, keys, resolved, id, key, value, opts) ==
    register(registry, keys, resolved, id, key, value,
             [clone(opts) EXCEPT !.constant = TRUE])

singleton(registry, keys, resolved, id, key, value, opts) ==
    register(registry, keys, resolved, id, key, value,
             [clone(opts) EXCEPT !.singleton = TRUE])

(***************************************************************************)
(* EventPluginManager.run                                                  *)
(***************************************************************************)
\* number of plugins the configuration holds at the start
MaxPlugins == 2

\* number of run calls made on the client
MaxRuns == 2

\* run called without a callback
NoCallback == 0

\* What the run of a plugin does before and after it calls next: nothing,
\* context.cancelled = true, or throw.  A plugin calls next at most once,
\* when it is given one, and before it returns.
Steps == {"none", "cancel", "throw"}

Behaviours ==
    {b \in [before : Steps, next : BOOLEAN, after : Steps] :
        /\ b.before = "throw" => ~b.next
        /\ ~b.next => b.after = "none"}

\* a configured plugin
Plugin(b) == [name |-> "plugin", does |-> b, callback |-> NoCallback]

\* line 33: { name: 'callback', priority: ..., run: callback }; the list is
\* taken as run finds it, so the priority plays no part in run
CallbackPlugin(callback) ==
    [name |-> "callback",
     does |-> [before |-> "none", next |-> FALSE, after |-> "none"],
     callback |-> callback]

\* the plugin lists a configuration starts with
PluginLists ==
    UNION {[1..n -> {Plugin(b) : b \in Behaviours}] : n \in 0..MaxPlugins}

\* What a run call does, in order: plugin.run entered for the plugin at
\* index, context.cancelled set by it, its error caught, and the callback
\* invoked, as the run of the pseudo-plugin (line 18) or by the wrapper of a
\* cancelled context (line 26).
PluginEvent(e, index, callback) == [e |-> e, index |-> index, callback |-> callback]
Ran(index) == PluginEvent("run", index, NoCallback)
Cancelled(index) == PluginEvent("cancel", index, NoCallback)
Caught(index) == PluginEvent("error", index, NoCallback)
CalledAsPlugin(callback, index) == PluginEvent("callback-plugin", index, callback)
CalledOnCancel(callback, index) == PluginEvent("callback-cancelled", index, callback)

\* one step of a plugin's run
Step(st, what, index) ==
    IF what = "cancel"
    THEN [st EXCEPT !.cancelled = TRUE, !.log = Append(@, Cancelled(index))]
    ELSE IF what = "throw" THEN [st EXCEPT !.thrown = TRUE]
    ELSE st

RECURSIVE wrap(_, _, _, _)

\* plugin.run(context, next) for plugins[index], next being the wrapper of
\* the plugin after it, or null for the last (line 38)
pluginRun(list, index, callback, st) ==
    LET plugin == list[index]
        s0 == [st EXCEPT !.log = Append(@, Ran(index))]
    IN  IF plugin.name = "callback"
        THEN [s0 EXCEPT !.log = Append(@, CalledAsPlugin(plugin.callback, index))]
        ELSE LET s1 == Step(s0, plugin.does.before, index)
             IN  IF s1.thrown THEN s1
                 ELSE LET s2 == IF plugin.does.next /\ index < Len(list)
                                THEN wrap(list, index + 1, callback, s1)
                                ELSE s1
                      IN  Step(s2, plugin.does.after, index)

\* wrap without the test of context.cancelled at line 17.
wrapRunsCancelled(list, index, callback, st) ==
    LET r == pluginRun(list, index, callback, st)
        c == IF r.thrown
             THEN [r EXCEPT !.thrown = FALSE, !.cancelled = TRUE,
                            !.log = Append(@, Caught(index))]
             ELSE r
    IN  IF c.cancelled /\ callback # NoCallback
        THEN [c EXCEPT !.log = Append(@, CalledOnCancel(callback, index))]
        ELSE c

\* lines 15-28: a call of the function that wrap(plugins[index], next) returns
wrap(list, index, callback, st) ==
    LET r == IF ~st.cancelled THEN pluginRun(list, index, callback, st) ELSE st
        c == IF r.thrown
             THEN [r EXCEPT !.thrown = FALSE, !.cancelled = TRUE,
                            !.log = Append(@, Caught(index))]
             ELSE r
    IN  IF c.cancelled /\ callback # NoCallback
        THEN [c EXCEPT !.log = Append(@, CalledOnCancel(callback, index))]
        ELSE c

\* EventPluginManager.run(context, callback): the plugin list it leaves in
\* the configuration, and what it did.  Without a callback and without a
\* plugin, wrappedPlugins[0] is undefined and calling it throws.
run(list, context, callback) ==
    LET start  == [cancelled |-> context.cancelled, thrown |-> FALSE,
                   log |-> <<>>, out |-> Ok]
        pushed == IF callback # NoCallback
                  THEN Append(list, CallbackPlugin(callback))
                  ELSE list
    IN  [plugins |-> pushed,
         st |-> IF pushed = <<>> THEN [start EXCEPT !.out = TypeError]
                ELSE wrap(pushed, 1, callback, start)]

\* no run call made yet
NoRun ==
    [callback |-> NoCallback, before |-> <<>>, list |-> <<>>, entered |-> FALSE,
     cancelled |-> FALSE, out |-> Ok, log |-> <<>>]

(***************************************************************************)
(* The container as a state machine                                        *)
(***************************************************************************)
Call(op, key, arg, st) ==
    [op |-> op, key |-> key, arg |-> arg, out |-> st.out, val |-> st.val,
     all |-> st.all, path |-> st.path, log |-> st.log]

\* no call is being looked at
Idle ==
    [op |-> "idle", key |-> Undefined, arg |-> Undefined, out |-> Ok,
     val |-> 0, all |-> EmptyObject, path |-> <<>>, log |-> <<>>]

Init ==
    /\ _registry = EmptyObject
    /\ registryKeys = <<>>
    /\ _resolved = EmptyObject
    /\ nextId = 1
    /\ last = Idle
    /\ plugins = <<>>
    /\ runCount = 0
    /\ ran = NoRun

\* key may be registered now: the keys before it in KeyOrder are
InOrder(key) ==
    \E i \in 1..Len(KeyOrder) :
        /\ KeyOrder[i] = key
        /\ \A j \in 1..(i - 1) : isRegistered(_registry, KeyOrder[j])

Register(key, value, opts) ==
    /\ last = Idle
    /\ InOrder(key)
    /\ LET r == register(_registry, registryKeys, _resolved, nextId,
                         key, value, opts)
       IN  /\ _registry' = r.registry
           /\ registryKeys' = r.keys
           /\ _resolved' = r.st.resolved
           /\ last' = Call("register", key, [value |-> value, opts |-> opts], r.st)
           /\ UNCHANGED nextId
           /\ UNCHANGED pmVars

\* constant and singleton: `last` holds the register call they make
Constant(key, value, opts) ==
    /\ last = Idle
    /\ InOrder(key)
    /\ LET r == constant(_registry, registryKeys, _resolved, nextId,
                         key, value, opts)
       IN  /\ _registry' = r.registry
           /\ registryKeys' = r.keys
           /\ _resolved' = r.st.resolved
           /\ last' = Call("register", key,
                           [value |-> value,
                            opts  |-> [clone(opts) EXCEPT !.constant = TRUE]],
                           r.st)
           /\ UNCHANGED nextId
           /\ UNCHANGED pmVars

Singleton(key, value, opts) ==
    /\ last = Idle
    /\ InOrder(key)
    /\ LET r == singleton(_registry, registryKeys, _resolved, nextId,
                          key, value, opts)
       IN  /\ _registry' = r.registry
           /\ registryKeys' = r.keys
           /\ _resolved' = r.st.resolved
           /\ last' = Call("register", key,
                           [value |-> value,
                            opts  |-> [clone(opts) EXCEPT !.singleton = TRUE]],
                           r.st)
           /\ UNCHANGED nextId
           /\ UNCHANGED pmVars

Resolve(key) ==
    /\ last = Idle
    /\ LET r == resolve(_registry, registryKeys, _resolved, nextId, key)
       IN  /\ r.nextId <= MaxInst + 1
           /\ _resolved' = r.resolved
           /\ nextId' = r.nextId
           /\ last' = Call("resolve", key, Undefined, r)
           /\ UNCHANGED <<_registry, registryKeys>>
           /\ UNCHANGED pmVars

Destroy(key) ==
    /\ last = Idle
    /\ LET r == destroy(_registry, registryKeys, _resolved, nextId, key)
       IN  /\ _resolved' = r.resolved
           /\ last' = Call("destroy", key, Undefined, r)
           /\ UNCHANGED <<_registry, registryKeys, nextId>>
           /\ UNCHANGED pmVars

\* The caller is done with the call it made; the container is as it was.
Return ==
    /\ last # Idle
    /\ last' = Idle
    /\ UNCHANGED <<_registry, registryKeys, _resolved, nextId>>
    /\ UNCHANGED pmVars

Next ==
    \/ \E key \in Keys, r \in Registrations : Register(key, r.value, r.opts)
    \/ \E key \in Keys, opts \in WrapperOptions : Constant(key, PlainValue, opts)
    \/ \E key \in Keys, value \in SingletonValues, opts \in WrapperOptions :
          Singleton(key, value, opts)
    \/ \E key \in Keys \cup {Undefined} : Resolve(key)
    \/ \E key \in Keys \cup {Undefined} : Destroy(key)
    \/ Return

Spec == Init /\ [][Next]_vars

(***************************************************************************)
(* The plugin pipeline as a state machine                                  *)
(***************************************************************************)
\* a client whose configuration holds some plugins; the container is idle
PMInit ==
    /\ _registry = EmptyObject
    /\ registryKeys = <<>>
    /\ _resolved = EmptyObject
    /\ nextId = 1
    /\ last = Idle
    /\ plugins \in PluginLists
    /\ runCount = 0
    /\ ran = NoRun

\* a run call on the client, with a context that is cancelled already or
\* not, and with a callback of its own (named by the number of the call) or
\* with none
Run(cancelled, withCallback) ==
    /\ runCount < MaxRuns
    /\ LET callback == IF withCallback THEN runCount + 1 ELSE NoCallback
           r == run(plugins, [cancelled |-> cancelled], callback)
       IN  /\ plugins' = r.plugins
           /\ runCount' = runCount + 1
           /\ ran' = [callback |-> callback, before |-> plugins,
                      list |-> r.plugins, entered |-> cancelled,
                      cancelled |-> r.st.cancelled, out |-> r.st.out,
                      log |-> r.st.log]
    /\ UNCHANGED treeVars

PMNext == \E cancelled \in BOOLEAN, withCallback \in BOOLEAN :
              Run(cancelled, withCallback)

PMSpec == PMInit /\ [][PMNext]_vars

(***************************************************************************)
(* Properties                                                              *)
(***************************************************************************)
\* the positions of the log at which the factory of key was invoked
Invocations(log, key) ==
    {i \in 1..Len(log) : log[i].e = "invoke" /\ log[i].key = key}

\* the positions of the log at which _resolve was entered
Entries(log) == {i \in 1..Len(log) : log[i].e = "enter"}

\* resolve(key) has just returned a value
Resolved(key) == last.op = "resolve" /\ last.key = key /\ last.out = Ok

\* what a further resolve(key), made right now, does
Again(key) == resolve(_registry, registryKeys, _resolved, nextId, key)

\* C1: when resolve(key) has returned for a singleton key, a second
\* resolve(key) made right after it returns the identical instance, and it
\* neither invokes a factory nor enters the resolution of a dependency: all
\* it does is enter key and read the cache.
C1_SingletonResolvesToSameInstance ==
    \A key \in Keys :
        (Resolved(key) /\ _registry[key].isSingleton) =>
            LET r == Again(key)
            IN  /\ r.out = Ok
                /\ r.val = last.val
                /\ r.log = <<Enter(key, <<key>>)>>
                /\ r.resolved = _resolved
                /\ r.nextId = nextId

\* C1 witness: a singleton factory with a dependency has been resolved, its
\* factory invoked.
C1_Witness ==
    \E key \in Keys :
        /\ Resolved(key)
        /\ _registry[key].isSingleton
        /\ _registry[key].dependencies # <<>>
        /\ Invocations(last.log, key) # {}
        /\ last.val > 0

\* C2: when resolve(key) has returned for a non-singleton factory key, the
\* call invoked the factory of key and returned what it constructed, and a
\* second resolve(key) made right after it invokes the factory again and
\* returns another, newly constructed instance.
C2_NonSingletonResolvesToNewInstance ==
    \A key \in Keys :
        (Resolved(key) /\ ~_registry[key].isSingleton
                       /\ ~_registry[key].isConstant) =>
            LET r == Again(key)
            IN  /\ \E i \in Invocations(last.log, key) :
                      last.log[i].value = last.val
                /\ r.out = Ok
                /\ \E i \in Invocations(r.log, key) : r.log[i].value = r.val
                /\ r.val # last.val
                /\ r.val >= nextId
                /\ key \notin DOMAIN r.resolved

\* C2 witness: a non-singleton factory has been resolved.
C2_Witness ==
    \E key \in Keys :
        /\ Resolved(key)
        /\ ~_registry[key].isSingleton
        /\ ~_registry[key].isConstant
        /\ last.val > 0

\* C3: when resolve(A) has returned for a non-singleton factory A that has a
\* singleton B among its dependencies, a second resolve(A) made right after
\* it returns another A instance, constructed with the same B instance at
\* B's position, and the factory of B runs at most once in the two calls,
\* never in the second.
C3_NonSingletonSharesSingletonDependency ==
    \A A \in Keys :
        (Resolved(A) /\ ~_registry[A].isSingleton /\ ~_registry[A].isConstant) =>
            LET r    == Again(A)
                deps == _registry[A].dependencies
            IN  \A n \in 1..Len(deps) :
                  LET B == deps[n] IN
                  _registry[B].isSingleton =>
                    /\ r.out = Ok
                    /\ r.val # last.val
                    /\ \A i \in Invocations(last.log, A), j \in Invocations(r.log, A) :
                          /\ last.log[i].value = last.val
                          /\ r.log[j].value = r.val
                          /\ last.log[i].args[n] = r.log[j].args[n]
                    /\ Invocations(r.log, A) # {}
                    /\ Invocations(r.log, B) = {}
                    /\ Cardinality(Invocations(last.log, B)) <= 1

\* C3 witness: a non-singleton factory has been resolved whose singleton
\* dependency was constructed in that very call.
C3_Witness ==
    \E A \in Keys :
        /\ Resolved(A)
        /\ ~_registry[A].isSingleton /\ ~_registry[A].isConstant
        /\ \E n \in 1..Len(_registry[A].dependencies) :
              LET B == _registry[A].dependencies[n] IN
              /\ _registry[B].isSingleton
              /\ Invocations(last.log, B) # {}

\* the registered keys that depend on key, directly or through other keys
RECURSIVE DependentsWithin(_, _, _)
DependentsWithin(registry, S, n) ==
    IF n = 0 THEN S
    ELSE DependentsWithin(registry,
            S \cup {d \in DOMAIN registry :
                      \E k \in S : contains(registry[d].dependencies, k)},
            n - 1)

DependentsOf(registry, key) ==
    DependentsWithin(registry, {key}, Cardinality(Keys)) \ {key}

\* the events of the log
Events(log) == {log[i] : i \in 1..Len(log)}

\* C4: after a register call that overwrote a registered key has returned,
\* the resolved cache holds no entry for the key nor for any registered key
\* that depends on it, directly or through other keys.  (register calls
\* destroy, and so leaves a log, exactly when the key is registered.)
C4_OverwriteLeavesNoStaleEntry ==
    (last.op = "register" /\ last.out = Ok /\ last.log # <<>>) =>
        \A k \in {last.key} \cup DependentsOf(_registry, last.key) :
            k \notin DOMAIN _resolved

\* C5: after destroy(key) has returned for a key that had a resolved-cache
\* entry, the resolved cache holds no entry for the key nor for any
\* registered key that depends on it, directly or through other keys.
C5_DestroyClearsTransitiveDependents ==
    (last.op = "destroy" /\ last.key \in Keys /\ last.out = Ok
                         /\ Remove(last.key) \in Events(last.log)) =>
        \A k \in {last.key} \cup DependentsOf(_registry, last.key) :
            k \notin DOMAIN _resolved

\* C6: destroy never raises an error, with a key or without one.
C6_DestroyNeverRaises ==
    last.op = "destroy" => last.out = Ok

C8_MutualDependencyFailsAsCircular ==
    \A A \in Keys, B \in Keys :
        (/\ A # B
         /\ last.op = "resolve" /\ last.key = A
         /\ isRegistered(_registry, A) /\ isRegistered(_registry, B)
         /\ _registry[A].dependencies = <<B>>
         /\ _registry[B].dependencies = <<A>>) =>
            /\ last.out = CircularDependency
            /\ last.path = <<A, B, A>>

\* C9: a resolve call reaches an unregistered key exactly when it fails with
\* UnregisteredDependency; it then stops there, returns no value, and reports
\* the chain of requesters: the path starts at the key the resolution
\* started from, every key on it but the last is a registered factory that
\* has the next one among its dependencies, the last one is the unregistered
\* key, and no key on the path has an entry in the resolved cache.
C9_UnregisteredDependencyReportsRequesters ==
    last.op = "resolve" =>
        LET log   == last.log
            unreg == {i \in Entries(log) : ~isRegistered(_registry, log[i].key)}
            p     == last.path
            n     == Len(p)
        IN  /\ (unreg # {}) <=> (last.out = UnregisteredDependency)
            /\ (unreg # {}) =>
                  /\ unreg = {Len(log)}
                  /\ n >= 1
                  /\ p[n] = log[Len(log)].key
                  /\ IF last.key = Undefined
                     THEN isRegistered(_registry, p[1])
                     ELSE p[1] = last.key
                  /\ \A i \in 1..(n - 1) :
                        /\ isRegistered(_registry, p[i])
                        /\ ~_registry[p[i]].isConstant
                        /\ contains(_registry[p[i]].dependencies, p[i + 1])
                  /\ last.val = 0
                  /\ \A i \in 1..n : p[i] \notin DOMAIN _resolved

\* C9 witness: a resolve call has failed on an unregistered key two
\* requesters below the key it started from.
C9_Witness ==
    /\ last.op = "resolve"
    /\ last.out = UnregisteredDependency
    /\ Len(last.path) = 3
    /\ ~isRegistered(_registry, last.path[3])

\* C10: a register call whose options name, with aggregateOn, an aggregator
\* key that is not registered yet succeeds and leaves the aggregator
\* registered with the registered key in its dependency list.
C10_AggregateOnCreatesAggregator ==
    [][(/\ last'.op = "register"
        /\ last'.arg.opts.aggregateOn # Undefined
        /\ last'.arg.opts.aggregateOn # last'.key
        /\ ~isRegistered(_registry, last'.arg.opts.aggregateOn)) =>
          /\ last'.out = Ok
          /\ isRegistered(_registry', last'.arg.opts.aggregateOn)
          /\ contains(_registry'[last'.arg.opts.aggregateOn].dependencies,
                      last'.key)]_vars

\* C11: in every reachable state, every key that has an entry in the
\* resolved cache is registered, with a record whose singleton flag is set.
C11_CacheHoldsOnlySingletons ==
    \A k \in DOMAIN _resolved :
        isRegistered(_registry, k) /\ _registry[k].isSingleton

\* C11 witness: a register call has overwritten a key that was a cached
\* singleton with a non-singleton record, while another key is cached.
C11_Witness ==
    /\ last.op = "register" /\ last.out = Ok
    /\ Remove(last.key) \in Events(last.log)
    /\ ~_registry[last.key].isSingleton
    /\ _resolved # EmptyObject

\* C12: a register call that fails with InvalidRegistrationOptions or with
\* NotAFactory has no effect: it leaves the registry and the resolved cache
\* as they were, also when the key was registered and cached.
C12_FailedRegisterHasNoEffect ==
    [][(/\ last'.op = "register"
        /\ last'.out \in {InvalidRegistrationOptions, NotAFactory}) =>
          /\ _registry' = _registry
          /\ registryKeys' = registryKeys
          /\ _resolved' = _resolved]_vars

\* C13: when a destroy call has removed the cache entry of a key, the
\* registry is as it was, the key still registered with its record, and a
\* resolve(key) made right after it succeeds, invokes the factory of key and
\* returns what that invocation constructed: a new instance, not the one the
\* cache held.
C13_DestroyedSingletonIsRebuilt ==
    [][\A k \in Keys :
        (last'.op = "destroy" /\ Remove(k) \in Events(last'.log)) =>
          /\ k \in DOMAIN _resolved
          /\ k \notin DOMAIN _resolved'
          /\ _registry' = _registry
          /\ registryKeys' = registryKeys
          /\ isRegistered(_registry', k)
          /\ LET r == resolve(_registry', registryKeys', _resolved', nextId', k)
             IN  /\ r.out = Ok
                 /\ \E i \in Invocations(r.log, k) : r.log[i].value = r.val
                 /\ r.val # _resolved[k].value
                 /\ r.val >= nextId']_vars

\* C14: after destroy() without a key has returned, the resolved cache is
\* empty, and every registered key was either not cached when its turn came
\* or received its teardown hook and was removed.
C14_DestroyAllEmptiesCache ==
    (last.op = "destroy" /\ last.key = Undefined /\ last.out = Ok) =>
        /\ _resolved = EmptyObject
        /\ \A k \in DOMAIN _registry :
              \/ Skip(k) \in Events(last.log)
              \/ Emit(k) \in Events(last.log) /\ Remove(k) \in Events(last.log)

\* C14 witness: destroy() has returned after removing two cached keys
\* neither of which depends on the other.
C14_Witness ==
    /\ last.op = "destroy" /\ last.key = Undefined /\ last.out = Ok
    /\ \E j \in Keys, k \in Keys :
          /\ j # k
          /\ Remove(j) \in Events(last.log)
          /\ Remove(k) \in Events(last.log)
          /\ ~contains(_registry[j].dependencies, k)
          /\ ~contains(_registry[k].dependencies, j)

\* C15: every destroy call terminates: the recursion of _destroy over the
\* dependents of a key never goes on without end, whatever the registry and
\* the resolved cache have become.
C15_DestroyTerminates ==
    last.op = "destroy" => last.out # RangeError

\* the positions of the log at which the event ev stands
Positions(log, ev) == {i \in 1..Len(log) : log[i] = ev}

\* the registered keys that have key among their dependencies
DirectDependents(registry, key) ==
    {d \in DOMAIN registry : contains(registry[d].dependencies, key)}

\* C16: in a destroy call, when the teardown hook of a key is invoked, every
\* key that depends on it directly and was cached has received its own hook
\* and been removed before, and none is cached when the call ends; so when
\* the entry of the key is removed, right after its hook, no direct
\* dependent is cached.
C16_DependentsTornDownFirst ==
    last.op = "destroy" =>
        \A i \in 1..Len(last.log) :
            last.log[i].e = "emit" =>
                /\ i < Len(last.log) /\ last.log[i + 1] = Remove(last.log[i].key)
                /\ \A d \in DirectDependents(_registry, last.log[i].key) :
                      /\ d \notin DOMAIN _resolved
                      /\ \A j \in Positions(last.log, Remove(d)) :
                            /\ j < i
                            /\ \E h \in Positions(last.log, Emit(d)) : h < j

\* C16 witness: destroy(key) has returned after tearing down key and a
\* cached key that depends on it.
C16_Witness ==
    /\ last.op = "destroy" /\ last.key \in Keys /\ last.out = Ok
    /\ Remove(last.key) \in Events(last.log)
    /\ \E d \in DirectDependents(_registry, last.key) :
          Remove(d) \in Events(last.log)

\* C17: in a resolve call, the cache entry of a key is written once, for a
\* key that had none, and only after its factory was invoked (for a
\* constant: right after the key was entered), which in turn is after each of
\* its dependencies was entered below it; the call adds no other entry and
\* changes none; and when the call fails, no key on the path of the error,
\* the keys whose construction did not complete, has a cache entry.
C17_CacheWrittenAfterConstruction ==
    [][last'.op = "resolve" =>
        LET log == last'.log IN
        /\ \A i \in 1..Len(log) :
              log[i].e = "store" =>
                LET k    == log[i].key
                    deps == _registry[k].dependencies
                IN  /\ k \notin DOMAIN _resolved
                    /\ {j \in 1..Len(log) : log[j].e = "store" /\ log[j].key = k} = {i}
                    /\ i > 1
                    /\ IF _registry[k].isConstant
                       THEN log[i - 1].e = "enter" /\ log[i - 1].key = k
                       ELSE /\ log[i - 1] = Invoke(k, log[i - 1].args, log[i].value)
                            /\ \E e \in 1..(i - 1) :
                                  /\ log[e].e = "enter" /\ log[e].key = k
                                  /\ \A n \in 1..Len(deps) :
                                        \E j \in (e + 1)..(i - 2) :
                                            log[j] = Enter(deps[n],
                                                           Append(log[e].path, deps[n]))
        /\ \A k \in DOMAIN _resolved' :
              IF k \in DOMAIN _resolved
              THEN _resolved'[k] = _resolved[k]
              ELSE Store(k, _resolved'[k].value) \in Events(log)
        /\ last'.out # Ok =>
              \A n \in 1..Len(last'.path) : last'.path[n] \notin DOMAIN _resolved']_vars

\* C17 witness: a resolve call has failed after it had cached a singleton,
\* below a singleton key that it left without a cache entry.
C17_Witness ==
    /\ last.op = "resolve" /\ last.out # Ok
    /\ \E i \in 1..Len(last.log) : last.log[i].e = "store"
    /\ Len(last.path) > 1
    /\ isRegistered(_registry, last.path[1])
    /\ _registry[last.path[1]].isSingleton
    /\ last.path[1] \notin DOMAIN _resolved

\* C18: a resolve call ends with a value or with UnregisteredDependency or
\* CircularDependency; every path it enters _resolve with holds no key twice
\* but for its last key, and when the last key does repeat an earlier one
\* that entry is the last thing the call does and the call fails with
\* CircularDependency; no path is longer than the number of registered keys
\* plus one.
C18_ResolveTerminates ==
    last.op = "resolve" =>
        /\ last.out \in {Ok, UnregisteredDependency, CircularDependency}
        /\ \A i \in Entries(last.log) :
              LET p == last.log[i].path
                  n == Len(p)
              IN  /\ n >= 1
                  /\ p[n] = last.log[i].key
                  /\ \A g \in 1..(n - 1), h \in 1..(n - 1) : p[g] = p[h] => g = h
                  /\ (\E g \in 1..(n - 1) : p[g] = p[n]) =>
                        /\ i = Len(last.log)
                        /\ last.out = CircularDependency
                        /\ last.path = p
                  /\ n <= Cardinality(DOMAIN _registry) + 1

\* C18 witness: with three keys registered in a cycle, a resolve call has
\* failed at the depth of four.
C18_Witness ==
    /\ last.op = "resolve" /\ last.out = CircularDependency
    /\ Cardinality(DOMAIN _registry) = 3
    /\ Len(last.path) = 4

\* the entry of the frame that made the invocation at position i of the log:
\* the last entry of its key before i
FrameStart(log, i) ==
    CHOOSE e \in Entries(log) :
        /\ e < i /\ log[e].key = log[i].key
        /\ \A j \in Entries(log) : (j < i /\ log[j].key = log[i].key) => j <= e

\* the n-th position of a set of positions
Nth(S, n) == CHOOSE j \in S : Cardinality({h \in S : h < j}) = n - 1

\* what the frame of dep that was entered at position from, and had returned
\* by position to, returned: what its factory constructed if it invoked it,
\* else the constant or the cached value
Returned(log, dep, from, to) ==
    LET made == {h \in (from + 1)..(to - 1) :
                    log[h].e = "invoke" /\ log[h].key = dep}
    IN  IF made # {} THEN log[CHOOSE h \in made : TRUE].value
        ELSE IF _registry[dep].isConstant THEN 0
        ELSE _resolved[dep].value

\* C19: when a resolve call invokes the factory of a key, the entries made
\* one level below the frame of the key, between its entry and the
\* invocation, are those of its dependencies, one each, in the declared
\* order, each with the path of the frame extended by the dependency; and
\* the factory receives, at each position, what the dependency at that
\* position resolved to.
C19_DependenciesInDeclaredOrder ==
    last.op = "resolve" =>
        \A i \in 1..Len(last.log) :
            last.log[i].e = "invoke" =>
              LET log   == last.log
                  deps  == _registry[log[i].key].dependencies
                  m     == Len(deps)
                  e     == FrameStart(log, i)
                  P     == log[e].path
                  below == {j \in Entries(log) :
                              e < j /\ j < i /\ Len(log[j].path) = Len(P) + 1}
              IN  /\ \E j \in Entries(log) : j < i /\ log[j].key = log[i].key
                  /\ P[Len(P)] = log[i].key
                  /\ Cardinality(below) = m
                  /\ Len(log[i].args) = m
                  /\ \A n \in 1..m :
                        LET j   == Nth(below, n)
                            end == IF n < m THEN Nth(below, n + 1) ELSE i
                        IN  /\ log[j] = Enter(deps[n], Append(P, deps[n]))
                            /\ log[i].args[n] = Returned(log, deps[n], j, end)

\* C19 witness: a resolve call has invoked a factory of two dependencies
\* with two different instances.
C19_Witness ==
    /\ last.op = "resolve" /\ last.out = Ok
    /\ \E i \in 1..Len(last.log) :
          /\ last.log[i].e = "invoke"
          /\ Len(last.log[i].args) = 2
          /\ last.log[i].args[1] > 0
          /\ last.log[i].args[2] > 0
          /\ last.log[i].args[1] # last.log[i].args[2]

\* the keys of the log whose cache entry was written in a frame of depth n
StoredAtDepth(log, n) ==
    {log[i].key : i \in {h \in 2..Len(log) :
        /\ log[h].e = "store"
        /\ \E e \in Entries(log) :
              e < h /\ log[e].key = log[h].key /\ Len(log[e].path) = n}}

\* C20: when resolve() without a key fails, it fails with the error of the
\* key that failed and returns no mapping, every cache entry the call wrote
\* before is in the resolved cache with the instance it stored, no entry
\* that was there is gone, and the registry is as it was.  (When it
\* succeeds, it returns a mapping with every registered key.)
C20_ResolveAllIsNotTransactional ==
    [][(last'.op = "resolve" /\ last'.key = Undefined) =>
        IF last'.out = Ok
        THEN DOMAIN last'.all = DOMAIN _registry'
        ELSE /\ last'.out \in {UnregisteredDependency, CircularDependency}
             /\ last'.path # <<>>
             /\ last'.all = EmptyObject
             /\ last'.val = 0
             /\ \A i \in 1..Len(last'.log) :
                   last'.log[i].e = "store" =>
                     /\ last'.log[i].key \in DOMAIN _resolved'
                     /\ _resolved'[last'.log[i].key].value = last'.log[i].value
             /\ \A k \in DOMAIN _resolved :
                   k \in DOMAIN _resolved' /\ _resolved'[k] = _resolved[k]
             /\ _registry' = _registry
             /\ registryKeys' = registryKeys]_vars

\* C20 witness: resolve() has failed after it had cached one singleton
\* resolved as a key of the registry and one resolved as a dependency.
C20_Witness ==
    /\ last.op = "resolve" /\ last.key = Undefined /\ last.out # Ok
    /\ StoredAtDepth(last.log, 1) # {}
    /\ StoredAtDepth(last.log, 2) # {}
    /\ StoredAtDepth(last.log, 1) \cup StoredAtDepth(last.log, 2)
          \subseteq DOMAIN _resolved

\* the positions of the log of a run call at which the callback was invoked
CallbackCalls(log, callback) ==
    {i \in 1..Len(log) :
        /\ log[i].e \in {"callback-plugin", "callback-cancelled"}
        /\ log[i].callback = callback}

\* C21: a run call that was given a callback, and whose chain ran to its end
\* or whose context ended cancelled (by a plugin, or by the error of one),
\* has invoked that callback exactly once.
C21_CallbackInvokedOnce ==
    (/\ ran.callback # NoCallback
     /\ \/ ran.cancelled
        \/ Ran(Len(ran.list)) \in Events(ran.log)) =>
        Cardinality(CallbackCalls(ran.log, ran.callback)) = 1

\* C22: a run call leaves the plugin list of the configuration as it found
\* it, and invokes no callback but its own.
C22_RunLeavesPluginListUnchanged ==
    [][runCount' # runCount =>
        /\ plugins' = plugins
        /\ \A i \in 1..Len(ran'.log) :
              ran'.log[i].callback \in {NoCallback, ran'.callback}]_vars

\* the positions of the log of a run call at which a plugin's run was entered
PluginRuns(log) == {i \in 1..Len(log) : log[i].e = "run"}

\* C23: in a run call the plugins' runs are entered in list order, the k-th
\* run entered being that of the k-th plugin of the list, and none is
\* entered once context.cancelled is true: not when the context came in
\* cancelled, and not after a plugin set it or the error of a plugin was
\* caught.
C23_NoPluginRunsAfterCancel ==
    \A p \in PluginRuns(ran.log) :
        /\ ran.log[p].index = Cardinality({q \in PluginRuns(ran.log) : q <= p})
        /\ ~ran.entered
        /\ \A q \in 1..(p - 1) : ran.log[q].e \notin {"cancel", "error"}

\* C23 witness: a plugin that is followed by another has set
\* context.cancelled and called next all the same, in a run call that was
\* given a callback.
C23_Witness ==
    /\ ran.callback # NoCallback
    /\ \E i \in 1..(Len(ran.list) - 1) :
          /\ Ran(i) \in Events(ran.log)
          /\ ran.list[i].does.before = "cancel"
          /\ ran.list[i].does.next
          /\ ran.list[i + 1].name = "plugin"

====
